---- MODULE Spec2Model ----
(***************************************************************************)
(* Model of the protein-folding graph programs: ProteinGraph (protein.py)  *)
(* and the module-level functions of protein_folding.py.                   *)
(*                                                                         *)
(* Weights (kcal/mol) are counted in units of 0.5 kcal/mol, so that every  *)
(* weight of the sources is an integer: -2.0 is -4, -0.5 is -1, -8.5 is    *)
(* -17.  float('inf') is the distance value Inf below; Python's None is    *)
(* the string "None".                                                      *)
(***************************************************************************)
EXTENDS Integers, Sequences, FiniteSets, TLC

VARIABLES G, err, res, rp

vars == <<G, err, res, rp>>

\* ---------------------------------------------------------------- bounds
\* Longest edge list handed to ProteinGraph(edges=...).
MaxEdges == 3
\* Longest residue list the PDB parser hands to build_from_pdb.
MaxResidues == 3

\* Node identifiers of the enumerated inputs, and one that is never a node.
\* Identifiers are opaque: only identity and order of first appearance
\* matter, so the enumerated inputs name their nodes in that order.
NodeOrder == <<"A", "B", "C">>
NodeIds == {NodeOrder[i] : i \in 1..Len(NodeOrder)}
AbsentNode == "Z"
\* Edge weights of the enumerated inputs, in units of 0.5 kcal/mol.
Weights == {-2, 1}

None == "None"
NoGraph == [nodes |-> <<None>>, edges |-> <<>>]

\* ---------------------------------------------------------------- helpers
Range(s) == {s[i] : i \in 1..Len(s)}

SeqsUpTo(S, n) == UNION {[1..k -> S] : k \in 0..n}

RECURSIVE SumSeq(_)
SumSeq(s) == IF s = <<>> THEN 0 ELSE Head(s) + SumSeq(Tail(s))

\* ------------------------------------------------------ float arithmetic
Inf == [fin |-> FALSE, val |-> 0]
Fin(x) == [fin |-> TRUE, val |-> x]

\* distance[u] + w
FAdd(d, w) == IF d.fin THEN Fin(d.val + w) ELSE Inf

\* a < b
FLess(a, b) == IF a.fin /\ b.fin THEN a.val < b.val ELSE a.fin /\ ~b.fin

\* ------------------------------------------------------ networkx DiGraph
EmptyGraph == [nodes |-> <<>>, edges |-> <<>>]

NodeIndex(g, n) == CHOOSE i \in 1..Len(g.nodes) : g.nodes[i] = n

AddNode(g, n) ==
    IF n \in Range(g.nodes) THEN g
    ELSE [g EXCEPT !.nodes = Append(g.nodes, n)]

\* G.add_edge(u, v, weight=w): both endpoints become nodes; an edge that is
\* already there keeps its place and takes the new weight; a new edge goes
\* to the end of u's adjacency.  edges is kept in the order of G.edges():
\* by source in node order, then by insertion into the source's adjacency.
AddEdge(g, u, v, w) ==
    LET g2 == AddNode(AddNode(g, u), v)
        E == g2.edges
        iu == NodeIndex(g2, u)
        here == {i \in 1..Len(E) : E[i][1] = u /\ E[i][2] = v}
        before == SelectSeq(E, LAMBDA e : NodeIndex(g2, e[1]) <= iu)
        after == SelectSeq(E, LAMBDA e : NodeIndex(g2, e[1]) > iu)
    IN  IF here # {}
        THEN [g2 EXCEPT !.edges =
                 [i \in 1..Len(E) |-> IF i \in here THEN <<u, v, w>> ELSE E[i]]]
        ELSE [g2 EXCEPT !.edges = before \o <<<<u, v, w>>>> \o after]

RECURSIVE AddWeightedEdgesFrom(_, _)
AddWeightedEdgesFrom(g, ebunch) ==
    IF ebunch = <<>> THEN g
    ELSE AddWeightedEdgesFrom(
             AddEdge(g, Head(ebunch)[1], Head(ebunch)[2], Head(ebunch)[3]),
             Tail(ebunch))

\* ------------------------------------------------------- example inputs
neg_edges_example ==
    << <<"U", "A", -4>>, <<"A", "B", -3>>, <<"B", "C", -6>>, <<"C", "F", -4>>,
       <<"B", "D", 2>>, <<"D", "E", -8>>, <<"E", "F", 4>>, <<"C", "A", -5>> >>

edges_example ==
    << <<"U", "A", -4>>, <<"A", "B", -3>>, <<"B", "C", -6>>, <<"C", "F", -4>>,
       <<"B", "D", 2>>, <<"D", "E", -8>>, <<"E", "F", 4>> >>

\* protein_folding.py's module-level graph
edges ==
    << <<"U", "A", -4>>, <<"A", "B", -3>>, <<"B", "C", -6>>, <<"C", "F", -4>>,
       <<"B", "D", 2>>, <<"D", "E", -8>>, <<"E", "F", 4>>, <<"C", "A", -3>> >>

\* The weight build_from_pdb gives every chain edge (-0.5 kcal/mol).
ChainWeight == -1

IdIndex(n) == CHOOSE i \in 1..Len(NodeOrder) : NodeOrder[i] = n

\* ids[i] is one of the identifiers before it or the next unused one
InOrderOfAppearance(ids) ==
    \A i \in 1..Len(ids) :
        \/ IdIndex(ids[i]) = 1
        \/ \E j \in 1..(i - 1) : IdIndex(ids[j]) >= IdIndex(ids[i]) - 1

Endpoints(edge_list) ==
    [i \in 1..(2 * Len(edge_list)) |->
        IF i % 2 = 1 THEN edge_list[(i + 1) \div 2][1] ELSE edge_list[i \div 2][2]]

EdgeLists ==
    {el \in SeqsUpTo(NodeIds \X NodeIds \X Weights, MaxEdges) :
        InOrderOfAppearance(Endpoints(el))}
        \cup {neg_edges_example, edges_example, edges}

ResidueLists == {r \in SeqsUpTo(NodeIds, MaxResidues) : InOrderOfAppearance(r)}

\* ------------------------------------------------- Bellman-Ford (both files)
\* distance = {node: inf for node in nodes}; distance[source] = 0
\* (the assignment adds the key when source is not a node)
InitDistance(nodes, source) ==
    [n \in Range(nodes) \cup {source} |-> IF n = source THEN Fin(0) ELSE Inf]

\* predecessor = {node: None for node in nodes}
InitPredecessor(nodes) == [n \in Range(nodes) |-> None]

\* if distance[u] + w < distance[v]
Relaxable(dp, e) ==
    FLess(FAdd(dp.distance[e[1]], e[3]), dp.distance[e[2]])

\* RelaxEdge with a predecessor that is set once and never replaced
RelaxEdge_KeepsFirstPredecessor(dp, e) ==
    IF Relaxable(dp, e)
    THEN [distance |-> [dp.distance EXCEPT ![e[2]] = FAdd(dp.distance[e[1]], e[3])],
          predecessor |-> IF dp.predecessor[e[2]] = None
                          THEN [dp.predecessor EXCEPT ![e[2]] = e[1]]
                          ELSE dp.predecessor]
    ELSE dp

\* the body of the relaxation loop, for one edge e = (u, v, w)
RelaxEdge(dp, e) ==
    IF Relaxable(dp, e)
    THEN [distance |-> [dp.distance EXCEPT ![e[2]] = FAdd(dp.distance[e[1]], e[3])],
          predecessor |-> [dp.predecessor EXCEPT ![e[2]] = e[1]]]
    ELSE dp

\* for u, v, w in self.G.edges(data="weight"): ...
RECURSIVE RelaxPass(_, _)
RelaxPass(dp, E) ==
    IF E = <<>> THEN dp
    ELSE IF Relaxable(dp, Head(E))
         THEN RelaxPass(RelaxEdge(dp, Head(E)), Tail(E))
         ELSE RelaxPass(dp, Tail(E))

\* for _ in range(k): one pass each (range of a negative k is empty)
RECURSIVE RelaxPasses(_, _, _)
RelaxPasses(dp, E, k) ==
    IF k <= 0 THEN dp ELSE RelaxPasses(RelaxPass(dp, E), E, k - 1)

\* Relaxed with one pass too few
Relaxed_OnePassShort(g, source) ==
    RelaxPasses([distance |-> InitDistance(g.nodes, source),
                 predecessor |-> InitPredecessor(g.nodes)],
                g.edges, Len(g.nodes) - 2)

\* the state of distance and predecessor after the |V|-1 passes
Relaxed(g, source) ==
    RelaxPasses([distance |-> InitDistance(g.nodes, source),
                 predecessor |-> InitPredecessor(g.nodes)],
                g.edges, Len(g.nodes) - 1)

\* cycle_vertex of the detection pass: the target of the first edge that
\* can still be relaxed, None when there is none
RECURSIVE DetectCycleVertex(_, _)
DetectCycleVertex(dp, E) ==
    IF E = <<>> THEN None
    ELSE IF Relaxable(dp, Head(E)) THEN Head(E)[2]
    ELSE DetectCycleVertex(dp, Tail(E))

KeyError == "KeyError"

\* WalkBack that stays at the detection pass's vertex
WalkBack_NoWalk(predecessor, v, k) == v

\* for _ in range(k): cycle_vertex = predecessor[cycle_vertex]
\* (predecessor has no key None: looking it up raises KeyError)
RECURSIVE WalkBack(_, _, _)
WalkBack(predecessor, v, k) ==
    IF k <= 0 THEN v
    ELSE IF v \notin DOMAIN predecessor THEN KeyError
    ELSE WalkBack(predecessor, predecessor[v], k - 1)

Diverges == "Diverges"

\* the while True loop that records (prev, cur) until cur == cycle_vertex.
\* A walk that has recorded more pairs than predecessor has keys has been
\* at some node twice without meeting cycle_vertex, and never ends.
RECURSIVE TraceCycle(_, _, _, _)
TraceCycle(predecessor, cycle_vertex, cur, cycle_edges) ==
    IF cur \notin DOMAIN predecessor THEN [exc |-> KeyError, cycle_edges |-> cycle_edges]
    ELSE IF Len(cycle_edges) > Cardinality(DOMAIN predecessor)
         THEN [exc |-> Diverges, cycle_edges |-> cycle_edges]
    ELSE LET prv == predecessor[cur]
             ce == Append(cycle_edges, <<prv, cur>>)
         IN  IF prv = cycle_vertex
             THEN [exc |-> None, cycle_edges |-> ce]
             ELSE TraceCycle(predecessor, cycle_vertex, prv, ce)

NoResult ==
    [kind |-> "none", exc |-> None, impl |-> None, source |-> None,
     distance |-> <<>>, predecessor |-> <<>>, anchor |-> None, cycle |-> <<>>]

\* ProteinGraph.bellman_ford(source).  kind is "returned" or "raised"; a
\* raised outcome keeps the locals at the raise (the caller never sees them).
ProteinGraph_bellman_ford(g, source) ==
    LET dp == Relaxed(g, source)
        anchor == DetectCycleVertex(dp, g.edges)
        base == [kind |-> "returned", exc |-> None, impl |-> "protein",
                 source |-> source, distance |-> dp.distance,
                 predecessor |-> dp.predecessor, anchor |-> anchor, cycle |-> <<>>]
    IN  IF anchor = None THEN base
        ELSE LET cv == WalkBack(dp.predecessor, anchor, Len(g.nodes))
             IN  IF cv = KeyError
                 THEN [base EXCEPT !.kind = "raised", !.exc = KeyError]
                 ELSE LET tr == TraceCycle(dp.predecessor, cv, cv, <<>>)
                      IN  IF tr.exc = None
                          THEN [base EXCEPT !.cycle = tr.cycle_edges]
                          ELSE [base EXCEPT !.kind = "raised", !.exc = tr.exc]

\* protein_folding.py's bellman_ford(graph, source): negative_cycle is the
\* list of the edges (u, v) that can still be relaxed
bellman_ford(g, source) ==
    LET dp == Relaxed(g, source)
    IN  [kind |-> "returned", exc |-> None, impl |-> "folding",
         source |-> source, distance |-> dp.distance,
         predecessor |-> dp.predecessor,
         anchor |-> DetectCycleVertex(dp, g.edges),
         cycle |-> [i \in 1..Len(SelectSeq(g.edges, LAMBDA e : Relaxable(dp, e)))
                      |-> <<SelectSeq(g.edges, LAMBDA e : Relaxable(dp, e))[i][1],
                            SelectSeq(g.edges, LAMBDA e : Relaxable(dp, e))[i][2]>>]]

\* ----------------------------------------------------------------- state
\* G: the instance's DiGraph (NoGraph before construction).
\* err: the exception that ended the construction, None otherwise.
\* res: the outcome of the latest bellman_ford call.
\* rp: the running or finished reconstruct_path call on res.
\*     (target is the end argument of the call; end is the loop's variable;
\*     odd tells whether len(path) is odd)
RpIdle ==
    [pc |-> "idle", start |-> None, target |-> None, end |-> None,
     path |-> <<>>, odd |-> FALSE, result |-> None]

Init ==
    /\ G = NoGraph
    /\ err = None
    /\ res = NoResult
    /\ rp = RpIdle

Constructed == G # NoGraph /\ err = None
NotConstructed == G = NoGraph /\ err = None

\* ProteinGraph(edges=edge_list): an empty list is falsy and, with no
\* pdb_file, raises ValueError
Construct(edge_list) ==
    /\ NotConstructed
    /\ IF edge_list # <<>>
       THEN /\ G' = AddWeightedEdgesFrom(EmptyGraph, edge_list)
            /\ err' = err
       ELSE /\ err' = "ValueError"
            /\ G' = G
    /\ UNCHANGED <<res, rp>>

\* ProteinGraph(pdb_file=...): build_from_pdb chains the residues that have
\* a CA atom, residues[i] -> residues[i+1], each edge -0.5 kcal/mol
build_from_pdb(g, residues) ==
    AddWeightedEdgesFrom(g,
        [i \in 1..(Len(residues) - 1) |-> <<residues[i], residues[i + 1], ChainWeight>>])

ConstructFromPdb(residues) ==
    /\ NotConstructed
    /\ G' = build_from_pdb(EmptyGraph, residues)
    /\ UNCHANGED <<err, res, rp>>

Sources == Range(G.nodes) \cup {AbsentNode}

\* a call of ProteinGraph.bellman_ford(source)
BellmanFord(source) ==
    /\ Constructed
    /\ rp.pc # "loop"
    /\ res' = ProteinGraph_bellman_ford(G, source)
    /\ rp' = RpIdle
    /\ UNCHANGED <<G, err>>

\* a call of protein_folding.py's bellman_ford(G, source)
FoldingBellmanFord(source) ==
    /\ Constructed
    /\ rp.pc # "loop"
    /\ res' = bellman_ford(G, source)
    /\ rp' = RpIdle
    /\ UNCHANGED <<G, err>>

\* reconstruct_path(predecessor, start, end) on the latest returned maps:
\* path = []
RpCall(end) ==
    /\ Constructed
    /\ res.kind = "returned"
    /\ rp.pc # "loop"
    /\ end \in Range(G.nodes)
    /\ rp' = [pc |-> "loop", start |-> res.source, target |-> end, end |-> end,
              path |-> <<>>, odd |-> FALSE, result |-> None]
    /\ UNCHANGED <<G, err, res>>

\* lowest_energy_path(source, target): bellman_ford; a non-empty neg_cycle
\* is reported and ends the call; otherwise reconstruct_path runs on the
\* maps (an exception of bellman_ford ends the call as well)
LowestEnergyPath(source, target) ==
    /\ Constructed
    /\ rp.pc # "loop"
    /\ res' = ProteinGraph_bellman_ford(G, source)
    /\ rp' = IF res'.kind = "returned" /\ res'.cycle = <<>>
             THEN [pc |-> "loop", start |-> source, target |-> target,
                   end |-> target, path |-> <<>>, odd |-> FALSE, result |-> None]
             ELSE RpIdle
    /\ UNCHANGED <<G, err>>

\* The window of path the model keeps: its first |V|+1 nodes.  A walk that
\* has prepended more than |V| nodes has been at some node twice and never
\* ends; a walk that ends is kept whole.  Of the length of a longer path
\* the model keeps the parity (rp.odd).
PathWindow(path) ==
    IF Len(path) > Len(G.nodes) + 1 THEN SubSeq(path, 1, Len(G.nodes) + 1) ELSE path

\* one turn of the loop: while end is not None:
\*     path.insert(0, end); end = predecessor[end]
RpStep ==
    /\ rp.pc = "loop"
    /\ rp.end # None
    /\ rp' = [rp EXCEPT !.path = PathWindow(<<rp.end>> \o rp.path),
                        !.odd = ~rp.odd,
                        !.end = res.predecessor[rp.end]]
    /\ UNCHANGED <<G, err, res>>

\* PathOrNone without the comparison with start
PathOrNone_NoStartCheck(path, start) ==
    IF path # <<>> THEN path ELSE None

\* return path if path and path[0] == start else None
PathOrNone(path, start) ==
    IF path # <<>> /\ path[1] = start THEN path ELSE None

RpReturn ==
    /\ rp.pc = "loop"
    /\ rp.end = None
    /\ rp' = [rp EXCEPT !.pc = "done", !.result = PathOrNone(rp.path, rp.start)]
    /\ UNCHANGED <<G, err, res>>

Next ==
    \/ NotConstructed /\ \E edge_list \in EdgeLists : Construct(edge_list)
    \/ NotConstructed /\ \E residues \in ResidueLists : ConstructFromPdb(residues)
    \/ Constructed /\ \E source \in Sources : BellmanFord(source)
    \/ Constructed /\ \E source \in Sources : FoldingBellmanFord(source)
    \/ Constructed /\ \E source \in Sources, target \in Range(G.nodes) :
                         LowestEnergyPath(source, target)
    \/ Constructed /\ \E end \in Range(G.nodes) : RpCall(end)
    \/ RpStep
    \/ RpReturn

Spec == Init /\ [][Next]_vars

\* The interpreter keeps running a loop it is in.
FairSpec == Spec /\ WF_vars(RpStep) /\ WF_vars(RpReturn)

\* ------------------------------------------------- what the graph defines
Nodes == Range(G.nodes)

HasEdge(u, v) == \E i \in 1..Len(G.edges) : G.edges[i][1] = u /\ G.edges[i][2] = v

\* the weight of the edge u -> v of G
Weight(u, v) ==
    LET i == CHOOSE k \in 1..Len(G.edges) : G.edges[k][1] = u /\ G.edges[k][2] = v
    IN  G.edges[i][3]

FMin(a, b) == IF FLess(b, a) THEN b ELSE a

RECURSIVE FMinOf(_)
FMinOf(S) ==
    IF S = {} THEN Inf
    ELSE LET x == CHOOSE y \in S : TRUE IN FMin(x, FMinOf(S \ {x}))

\* the weights of the single edges, as a matrix
EdgeMatrix ==
    [u \in Nodes, v \in Nodes |-> IF HasEdge(u, v) THEN Fin(Weight(u, v)) ELSE Inf]

\* from the least weights P of the walks of 1..k edges, those of 1..k+1 edges
Extend(P) ==
    [u \in Nodes, v \in Nodes |->
        FMinOf({P[u, v]} \cup
               {FAdd(P[u, x], Weight(x, v)) : x \in {y \in Nodes : HasEdge(y, v)}})]

RECURSIVE ExtendTimes(_, _)
ExtendTimes(P, k) == IF k <= 0 THEN P ELSE ExtendTimes(Extend(P), k - 1)

\* MinWalk[u, v]: the least weight of a walk u -> v of 1..|V| edges
MinWalk == ExtendTimes(EdgeMatrix, Len(G.nodes) - 1)

\* with M = MinWalk: some cycle through a node that a walk from s reaches
\* (s among them) has a negative total weight
NegativeCycleIn(M, s) ==
    \E x \in Nodes :
        /\ x = s \/ (s \in Nodes /\ M[s, x].fin)
        /\ FLess(M[x, x], Fin(0))

NegativeCycleReachable(s) == NegativeCycleIn(MinWalk, s)

\* with M = MinWalk: the least weight of a walk s -> t, the empty walk included
LowestIn(M, s, t) == FMin(IF s = t THEN Fin(0) ELSE Inf, M[s, t])

LowestWeight(s, t) == LowestIn(MinWalk, s, t)

\* the summed weight of a list of (u, v) pairs that are edges of G
PairsWeight(pairs) == SumSeq([i \in 1..Len(pairs) |-> Weight(pairs[i][1], pairs[i][2])])

\* the consecutive pairs of a node sequence
Steps(path) == [i \in 1..(Len(path) - 1) |-> <<path[i], path[i + 1]>>]

\* res is looked at in the state its call ends in: no reconstruct_path
\* call, or one that has not yet taken a step
CallEnded == rp.pc = "idle" \/ (rp.pc = "loop" /\ rp.path = <<>>)
Called == CallEnded /\ res.kind # "none"
Returned == res.kind = "returned"
ExampleGraph == AddWeightedEdgesFrom(EmptyGraph, edges_example)

\* ----------------------------------------------------------------- claims

\* C1: whenever a negative cycle is reachable from a source of the graph,
\* ProteinGraph.bellman_ford(source) returns a non-empty cycle list that is
\* a closed walk (the last edge's target is the first edge's source) of
\* negative summed weight.
C1_NegativeCycleReturned ==
    (Called /\ res.impl = "protein" /\ res.source \in Nodes
        /\ NegativeCycleReachable(res.source))
    => /\ Returned
       /\ res.cycle # <<>>
       /\ res.cycle[Len(res.cycle)][2] = res.cycle[1][1]
       /\ \A i \in 1..Len(res.cycle) : HasEdge(res.cycle[i][1], res.cycle[i][2])
       /\ PairsWeight(res.cycle) < 0

\* C2: with no negative cycle reachable from a source of the graph,
\* bellman_ford(source) returns an empty cycle list, distance[source] = 0
\* and no edge (u, v, w) has distance[u] + w < distance[v].
C2_AcyclicDistances ==
    (Called /\ res.source \in Nodes /\ ~NegativeCycleReachable(res.source))
    => /\ Returned
       /\ res.cycle = <<>>
       /\ res.distance[res.source] = Fin(0)
       /\ \A i \in 1..Len(G.edges) :
              ~FLess(FAdd(res.distance[G.edges[i][1]], G.edges[i][3]),
                     res.distance[G.edges[i][2]])

C2_Witness ==
    /\ Called /\ Returned /\ res.source \in Nodes /\ ~NegativeCycleReachable(res.source)
    /\ res.cycle = <<>>
    /\ \E x \in Nodes : HasEdge(x, x)
    /\ \E x \in Nodes : res.distance[x].fin /\ res.distance[x].val < 0
    /\ \E x \in Nodes : ~res.distance[x].fin

\* C3: after a bellman_ford(source) that returned no cycle, for a target of
\* finite distance reconstruct_path returns a node sequence from source to
\* target along edges of the graph whose weights sum to distance[target],
\* the least weight of any walk from source to target; on the 7-edge
\* example graph the path from U to F is U, A, B, C, F of weight -8.5.
C3_LowestWeightPath ==
    (rp.pc = "done" /\ Returned /\ res.cycle = <<>> /\ res.distance[rp.target].fin)
    => /\ rp.result # None
       /\ rp.result[1] = res.source
       /\ rp.result[Len(rp.result)] = rp.target
       /\ \A i \in 1..(Len(rp.result) - 1) : HasEdge(rp.result[i], rp.result[i + 1])
       /\ PairsWeight(Steps(rp.result)) = res.distance[rp.target].val
       /\ res.distance[rp.target] = LowestWeight(res.source, rp.target)
       /\ (res.source = "U" /\ rp.target = "F" /\ G = ExampleGraph)
              => /\ rp.result = <<"U", "A", "B", "C", "F">>
                 /\ res.distance["F"] = Fin(-17)

C3_Witness ==
    /\ rp.pc = "done" /\ Returned /\ res.cycle = <<>>
    /\ res.source = "U" /\ rp.target = "F"
    /\ rp.result = <<"U", "A", "B", "C", "F">>
    /\ G = ExampleGraph

\* C4: bellman_ford(source) with a source that is not a node fails: it
\* returns nothing, and the distance map's keys stay the graph's node set.
C4_UnknownSourceFails ==
    (Called /\ res.source \notin Nodes)
    => /\ res.kind = "raised"
       /\ DOMAIN res.distance = Nodes

\* C5: construction from an empty edge list or from a chain of fewer than
\* two nodes fails, so no instance with zero edges and zero nodes exists.
C5_NoEmptyGraph ==
    Constructed => Len(G.edges) > 0 /\ Len(G.nodes) > 0

\* C6: a node whose distance is still infinite after bellman_ford has
\* predecessor None, and reconstruct_path to it returns None.
C6_UnreachedHasNoPath ==
    /\ (Called /\ Returned) =>
           \A n \in Nodes : ~res.distance[n].fin => res.predecessor[n] = None
    /\ (rp.pc = "done" /\ ~res.distance[rp.target].fin) => rp.result = None

C6_Witness ==
    /\ rp.pc = "done" /\ res.source \in Nodes
    /\ ~res.distance[rp.target].fin
    /\ rp.result = None
    /\ \E n \in Nodes \ {res.source} : res.distance[n].fin

\* C8: whenever the detection pass finds an edge that can still be relaxed,
\* walking back |V| times from its target never meets a None predecessor
\* and ends on a node of a cycle of the predecessor map, so the call
\* returns and raises nothing.
OnPredecessorCycle(x) ==
    \E k \in 1..Len(G.nodes) : WalkBack(res.predecessor, x, k) = x

C8_WalkBackStaysInMap ==
    (Called /\ res.impl = "protein" /\ res.anchor # None)
    => /\ \A k \in 1..Len(G.nodes) :
              WalkBack(res.predecessor, res.anchor, k) \in Nodes
       /\ OnPredecessorCycle(WalkBack(res.predecessor, res.anchor, Len(G.nodes)))
       /\ Returned

\* C9: a returned non-empty cycle list holds only pairs (p, c) that are
\* edges of the graph with predecessor[c] = p, no node twice as a target,
\* at most |V| pairs, and the walk that records them ends by coming back
\* to the node it started from (it never runs on for ever).
C9_CycleIsSimplePredecessorCycle ==
    /\ (Called /\ res.impl = "protein") => res.exc # Diverges
    /\ (Called /\ Returned /\ res.impl = "protein" /\ res.cycle # <<>>)
       => /\ \A i \in 1..Len(res.cycle) :
                 /\ HasEdge(res.cycle[i][1], res.cycle[i][2])
                 /\ res.predecessor[res.cycle[i][2]] = res.cycle[i][1]
          /\ \A i, j \in 1..Len(res.cycle) :
                 i # j => res.cycle[i][2] # res.cycle[j][2]
          /\ Len(res.cycle) <= Len(G.nodes)
          /\ \A i \in 1..(Len(res.cycle) - 1) : res.cycle[i][1] = res.cycle[i + 1][2]
          /\ res.cycle[Len(res.cycle)][1] = res.cycle[1][2]

C9_Witness ==
    /\ Called /\ Returned /\ res.impl = "protein"
    /\ Len(res.cycle) >= 2
    /\ res.anchor \notin {res.cycle[i][2] : i \in 1..Len(res.cycle)}

\* C10: reconstruct_path ends on every predecessor map a bellman_ford call
\* returned, the maps of a run that found a negative cycle included.
C10_ReconstructPathTerminates == (rp.pc = "loop") ~> (rp.pc = "done")

====
